---- MODULE Spec2Model ----
(***************************************************************************)
(* Event stores of the eventsourcing module: the in-memory store, the SQL  *)
(* store, the Event Store DB (ESDB) store and the bbolt store, with their  *)
(* iterators; and the repository that saves, gets and snapshots aggregates *)
(* on top of them and publishes the saved events to subscribers.           *)
(*                                                                         *)
(* Strings that the code concatenates or splits are sequences of           *)
(* one-character strings, so that aggregateKey, stream and strings.Split   *)
(* are computed as the code computes them.                                 *)
(***************************************************************************)
EXTENDS Integers, Sequences, FiniteSets, TLC

\* Bounds of the model.
MaxEvents == 3      \* events one store holds at most
MaxBatch == 2       \* events of one Save call at most
MaxVersion == 3     \* highest Version a caller puts on an event
MaxNextAfterEnd == 1 \* calls of Next a caller makes after the iterator has ended

VARIABLES
    backend,          \* which EventStore implementation the repository was built with
    aggregateEvents,  \* Memory.aggregateEvents: bucket name -> events
    eventsInOrder,    \* Memory.eventsInOrder: the global event order
    rows,             \* SQL: the committed rows of table events, in seq order
    writer,           \* SQL: the transaction holding the database's write lock
    streams,          \* ESDB: stream name -> recorded events
    allLog,           \* ESDB: the position the transaction log ($all) has reached
    boltBuckets,      \* bbolt: bucket -> the events stored under the keys 1, 2, ...
    aggregate,        \* per caller: the aggregate the caller holds
    snapshots,        \* the snapshot store: aggregate -> its latest snapshot
    subscriptions,    \* per handler: the subscription's state and the events it was handed
    call,             \* per caller: the repository call in progress or its last outcome
    op,               \* per caller: the call in progress or the last call's outcome
    saved             \* history: the events of the Saves that succeeded, as the callers
                      \* got them back, in commit order

\* the variables of the repository, which the event stores do not touch
repository == <<aggregate, snapshots, subscriptions, call>>

vars == <<backend, repository, boltBuckets, aggregateEvents, eventsInOrder, rows, writer, streams,
          allLog, op, saved>>

Backends == {"memory", "sql", "esdb"}
Callers == {"c1", "c2"}
NoCaller == "none"

(***************************************************************************)
(* Strings                                                                 *)
(***************************************************************************)
EmptyString == <<>>

\* the separators the stores put between aggregate type and aggregate ID
memorySeparator == <<"_">>
streamSeparator == <<"-">>

RECURSIVE SplitFrom(_, _, _)
\* strings.Split(s, sep) for a one-character sep: acc is the part being read
SplitFrom(s, sep, acc) ==
    IF s = <<>> THEN <<acc>>
    ELSE IF <<Head(s)>> = sep THEN <<acc>> \o SplitFrom(Tail(s), sep, <<>>)
    ELSE SplitFrom(Tail(s), sep, Append(acc, Head(s)))

Split(s, sep) == SplitFrom(s, sep, <<>>)

(***************************************************************************)
(* Events                                                                  *)
(***************************************************************************)
NoError == "nil"

\* aggregate identities (AggregateType, AggregateID) the callers work with
Identities ==
    { [type |-> <<"a", "_", "b">>, id |-> <<"c">>],
      [type |-> <<"a">>,           id |-> <<"b", "_", "c">>],
      [type |-> <<"a", "-", "b">>, id |-> <<"c">>],
      [type |-> <<"a">>,           id |-> <<"b", "-", "c">>] }

\* a nil map
NoMetadata == <<>>

\* the event payloads (Data with its Metadata) the callers track
Payloads ==
    { [Data |-> "Born", Metadata |-> NoMetadata],
      [Data |-> "AgedOneYear", Metadata |-> <<"correlation">>] }

\* Event[T]{}: the zero event
ZeroEvent ==
    [AggregateID |-> EmptyString, AggregateType |-> EmptyString, Version |-> 0,
     GlobalVersion |-> 0, Data |-> "", Metadata |-> NoMetadata]

\* an event as TrackChange builds it: no GlobalVersion yet
NewEvent(ident, version, payload) ==
    [AggregateID |-> ident.id, AggregateType |-> ident.type, Version |-> version,
     GlobalVersion |-> 0, Data |-> payload.Data, Metadata |-> payload.Metadata]

\* Event.Reason: the name of the data struct
Reason(e) == e.Data

IdentityOf(e) == [type |-> e.AggregateType, id |-> e.AggregateID]

\* The batches handed to Save: none, one event, or longer ones where each further
\* event continues the one before, leaves a gap, or belongs to another aggregate.
OneEventBatches ==
    { <<NewEvent(i, v, p)>> : i \in Identities, v \in 1..MaxVersion, p \in Payloads }

BornPayload == [Data |-> "Born", Metadata |-> NoMetadata]

FurtherEvents(last) ==
    { NewEvent(IdentityOf(last), last.Version + 1, p) : p \in Payloads }
    \cup { NewEvent(IdentityOf(last), last.Version + 2, BornPayload) }
    \cup { NewEvent(i, last.Version + 1, BornPayload) :
             i \in { j \in Identities :
                       (j.type = last.AggregateType) # (j.id = last.AggregateID) } }

RECURSIVE BatchesOfLen(_)
BatchesOfLen(n) ==
    IF n = 0 THEN { <<>> }
    ELSE IF n = 1 THEN OneEventBatches
    ELSE UNION { { b \o <<s>> : s \in FurtherEvents(b[Len(b)]) } : b \in BatchesOfLen(n - 1) }

Batches == UNION { BatchesOfLen(n) : n \in 0..MaxBatch }

(***************************************************************************)
(* Serializer: the injected Marshal/Unmarshal and the type registry        *)
(***************************************************************************)
\* Marshal wraps a value in its encoding, Unmarshal unwraps it
Marshal(v) == <<"json", v>>
Unmarshal(b) == b[2]

\* the (aggregate type, reason) pairs registered with the serializer
Registry ==
    { <<i.type, "Born">> : i \in Identities }
    \cup { <<<<"a">>, "AgedOneYear">>, <<<<"a", "-", "b">>, "AgedOneYear">> }

\* Serializer.Type: whether a factory is found
TypeFound(aggregateType, reason) == <<aggregateType, reason>> \in Registry

(***************************************************************************)
(* eventstore.ValidateEvents                                               *)
(***************************************************************************)
RECURSIVE ValidateFrom(_, _, _, _)
ValidateFrom(aggregateID, currentVersion, events, i) ==
    IF i > Len(events) THEN NoError
    ELSE IF events[i].AggregateID # aggregateID
            \/ events[i].AggregateType # events[1].AggregateType THEN "ErrMixedAggregate"
    ELSE IF events[i].Version # currentVersion + 1
         THEN (IF i = 1 THEN "ErrConcurrency" ELSE "ErrNonContiguousVersion")
    ELSE ValidateFrom(aggregateID, events[i].Version, events, i + 1)

ValidateEvents(aggregateID, currentVersion, events) ==
    ValidateFrom(aggregateID, currentVersion, events, 1)

RECURSIVE ValidateNoVersionFrom(_, _, _)
ValidateNoVersionFrom(aggregateID, events, i) ==
    IF i > Len(events) THEN NoError
    ELSE IF events[i].AggregateID # aggregateID
            \/ events[i].AggregateType # events[1].AggregateType THEN "ErrMixedAggregate"
    ELSE ValidateNoVersionFrom(aggregateID, events, i + 1)

ValidateEventsNoVersionCheck(aggregateID, events) ==
    ValidateNoVersionFrom(aggregateID, events, 1)

(***************************************************************************)
(* The callers' records                                                    *)
(***************************************************************************)
NoIdentity == [type |-> EmptyString, id |-> EmptyString]
NotLoaded == -1

\* what the stores hold durably
Persisted == <<aggregateEvents, eventsInOrder, rows, streams, allLog, boltBuckets>>

IdleOp ==
    [kind |-> "idle", pc |-> "done", input |-> <<>>, events |-> <<>>, err |-> NoError,
     ident |-> NoIdentity, after |-> 0, seen |-> NotLoaded, before |-> <<>>, mark |-> 0,
     next |-> 1, pending |-> <<>>, snapshot |-> 0,
     iter |-> <<>>, position |-> 0, open |-> FALSE, out |-> <<>>, nextErr |-> NoError,
     ended |-> 0, closed |-> FALSE, closedAt |-> NoError,
     cursor |-> FALSE, firstEventIndex |-> 0, start |-> 0, count |-> 0]

\* ctx.Err() of the context a caller passed to the call it is in: the context
\* becomes done while the store reads
ctxErr == "ErrCanceled"
ctxDone(c) == call[c].pc = "read" /\ call[c].cancel = "during"

\* a caller starts a call once it has taken the outcome of its last one, or with
\* the aggregate it loaded
CanCall(c) == op[c].kind \in {"idle", "Load"}

\* the caller takes the outcome of its call and drops it
Return(c) ==
    /\ op[c].kind # "idle" /\ op[c].pc = "done"
    /\ op' = [op EXCEPT ![c] = IdleOp]
    /\ UNCHANGED <<backend, repository, boltBuckets, aggregateEvents, eventsInOrder, rows, writer, streams, allLog, saved>>

\* the Version a caller loaded the aggregate at, kept through its Save
SeenFor(c, events) ==
    IF op[c].kind = "Load" /\ events # <<>> /\ IdentityOf(events[1]) = op[c].ident
    THEN op[c].seen ELSE NotLoaded

\* a faulty start of Save that refuses a batch without events: the no-op of the
\* empty batch is tested against it
SaveOpRefusesEmpty(c, events) ==
    [IdleOp EXCEPT !.kind = "Save", !.input = events, !.events = events,
                   !.err = IF events = <<>> THEN "ErrNoEvents" ELSE NoError,
                   !.ident = IF events = <<>> THEN NoIdentity ELSE IdentityOf(events[1]),
                   !.seen = SeenFor(c, events), !.before = Persisted, !.mark = Len(saved)]

\* the record of a Save that has started: without events it has returned nil
SaveOp(c, events) ==
    [IdleOp EXCEPT !.kind = "Save", !.input = events, !.events = events,
                   !.ident = IF events = <<>> THEN NoIdentity ELSE IdentityOf(events[1]),
                   !.seen = SeenFor(c, events), !.before = Persisted, !.mark = Len(saved)]

(***************************************************************************)
(* The in-memory store                                                     *)
(***************************************************************************)
\* aggregateKey: the bucket an aggregate's events are stored against
aggregateKey(aggregateType, aggregateID) == aggregateType \o memorySeparator \o aggregateID

BucketNames == { aggregateKey(i.type, i.id) : i \in Identities }

\* a faulty numbering that starts at the length of the global order: the
\* sequential GlobalVersions are tested against it
MemoryStampedFromLength(events, inOrder) ==
    [i \in 1..Len(events) |-> [events[i] EXCEPT !.GlobalVersion = Len(inOrder) + i - 1]]

\* the events of a batch with the GlobalVersions Memory.Save gives them
MemoryStamped(events, inOrder) ==
    [i \in 1..Len(events) |-> [events[i] EXCEPT !.GlobalVersion = Len(inOrder) + i]]

\* Memory.Save, under the store's lock
MemorySave(c, events) ==
    /\ backend = "memory"
    /\ CanCall(c)
    /\ Len(eventsInOrder) + Len(events) <= MaxEvents
    /\ IF events = <<>>
       THEN /\ op' = [op EXCEPT ![c] = SaveOp(c, events)]
            /\ UNCHANGED <<aggregateEvents, eventsInOrder, saved>>
       ELSE LET bucketName == aggregateKey(events[1].AggregateType, events[1].AggregateID)
                evBucket == aggregateEvents[bucketName]
                currentVersion == IF Len(evBucket) > 0
                                  THEN evBucket[Len(evBucket)].Version ELSE 0
                err == ValidateEvents(events[1].AggregateID, currentVersion, events)
                stamped == MemoryStamped(events, eventsInOrder)
            IN  IF err # NoError
                THEN /\ op' = [op EXCEPT ![c] = [SaveOp(c, events) EXCEPT !.err = err]]
                     /\ UNCHANGED <<aggregateEvents, eventsInOrder, saved>>
                ELSE /\ aggregateEvents' =
                            [aggregateEvents EXCEPT ![bucketName] = evBucket \o stamped]
                     /\ eventsInOrder' = eventsInOrder \o stamped
                     /\ saved' = saved \o stamped
                     /\ op' = [op EXCEPT ![c] = [SaveOp(c, events) EXCEPT !.events = stamped]]
    /\ UNCHANGED <<backend, repository, boltBuckets, rows, writer, streams, allLog>>

(***************************************************************************)
(* The SQL store.  The database is one with a single writer at a time: a   *)
(* transaction takes the write lock with its first insert and holds it     *)
(* until it commits or rolls back; an insert fails while another           *)
(* transaction holds the lock, or when a transaction committed after this  *)
(* one read; seq is the table's AUTOINCREMENT key.  Any statement may fail.*)
(***************************************************************************)
\* Select version ... order by version desc limit 1: 0 stands for sql.ErrNoRows
SelectVersion(aggregateID, aggregateType) ==
    LET mine == SelectSeq(rows, LAMBDA r : r.id = aggregateID /\ r.type = aggregateType)
    IN  IF mine = <<>> THEN 0
        ELSE CHOOSE v \in { mine[i].version : i \in 1..Len(mine) } :
                 \A i \in 1..Len(mine) : mine[i].version <= v

\* the row an Insert into events writes for an event
InsertedRow(event, seq) ==
    [seq |-> seq, id |-> event.AggregateID, version |-> event.Version,
     reason |-> Reason(event), type |-> event.AggregateType,
     data |-> Marshal(event.Data),
     metadata |-> IF event.Metadata # NoMetadata THEN Marshal(event.Metadata) ELSE EmptyString]

\* a faulty rollback that keeps the inserts of the transaction: atomicity is tested against it
RollbackKeepsInserts(c) ==
    /\ writer' = IF writer = c THEN NoCaller ELSE writer
    /\ rows' = rows \o op[c].pending

\* tx.Rollback, deferred by SQL.Save: the lock is released, the inserts are dropped
Rollback(c) ==
    /\ writer' = IF writer = c THEN NoCaller ELSE writer
    /\ rows' = rows

\* tx.Commit: the inserts become rows of the table
Commit(c) ==
    /\ writer' = IF writer = c THEN NoCaller ELSE writer
    /\ rows' = rows \o op[c].pending

\* SQL.Save up to the insert loop: BeginTx, the version query, ValidateEvents
SQLSaveBegin(c, events) ==
    /\ backend = "sql"
    /\ CanCall(c)
    /\ Len(rows) + Len(events) <= MaxEvents
    /\ IF events = <<>>
       THEN op' = [op EXCEPT ![c] = SaveOp(c, events)]
       ELSE \E begun \in BOOLEAN :
              LET currentVersion == SelectVersion(events[1].AggregateID, events[1].AggregateType)
                  err == IF ~begun THEN "ErrDatabase"
                         ELSE ValidateEvents(events[1].AggregateID, currentVersion, events)
              IN  op' = [op EXCEPT ![c] =
                           [SaveOp(c, events) EXCEPT !.err = err, !.snapshot = Len(rows),
                               !.pc = IF err = NoError THEN "insert" ELSE "done"]]
    /\ UNCHANGED <<backend, repository, boltBuckets, aggregateEvents, eventsInOrder, rows, writer, streams, allLog, saved>>

\* whether the database can take an insert of caller c's transaction
CanInsert(c) == writer \in {NoCaller, c} /\ op[c].snapshot = Len(rows)

\* the caller's slice after the insert of event i returned seq
SQLExposed(events, i, seq) == [events EXCEPT ![i].GlobalVersion = seq]

\* one round of SQL.Save's loop: Marshal, tx.Exec, LastInsertId, GlobalVersion
SQLSaveInsert(c) ==
    /\ backend = "sql"
    /\ op[c].kind = "Save" /\ op[c].pc = "insert"
    /\ LET i == op[c].next
           event == op[c].events[i]
           seq == Len(rows) + Len(op[c].pending) + 1
       IN  \E outcome \in {"ok", "ErrMarshal", "ErrDatabase", "ErrDatabaseLocked"} :
              /\ outcome = "ok" => CanInsert(c)
              /\ outcome = "ErrDatabaseLocked" => ~CanInsert(c)
              /\ IF outcome = "ok"
                 THEN /\ writer' = c
                      /\ rows' = rows
                      /\ op' = [op EXCEPT ![c] =
                                  [@ EXCEPT !.events = SQLExposed(op[c].events, i, seq),
                                            !.pending = Append(@, InsertedRow(event, seq)),
                                            !.next = i + 1,
                                            !.pc = IF i = Len(op[c].events)
                                                   THEN "commit" ELSE "insert"]]
                 ELSE /\ Rollback(c)
                      /\ op' = [op EXCEPT ![c] =
                                  [@ EXCEPT !.err = outcome, !.pending = <<>>, !.pc = "done"]]
    /\ UNCHANGED <<backend, repository, boltBuckets, aggregateEvents, eventsInOrder, streams, allLog, saved>>

\* tx.Commit at the end of SQL.Save
SQLSaveCommit(c) ==
    /\ backend = "sql"
    /\ op[c].kind = "Save" /\ op[c].pc = "commit"
    /\ \E committed \in BOOLEAN :
          /\ IF committed THEN Commit(c) ELSE Rollback(c)
          /\ saved' = IF committed THEN saved \o op[c].events ELSE saved
          /\ op' = [op EXCEPT ![c] =
                      [@ EXCEPT !.err = IF committed THEN NoError ELSE "ErrDatabase",
                                !.pending = <<>>, !.pc = "done"]]
    /\ UNCHANGED <<backend, repository, boltBuckets, aggregateEvents, eventsInOrder, streams, allLog>>

(***************************************************************************)
(* The ESDB store.  AppendToStream appends a batch atomically when the     *)
(* stream is in the expected state; the write's commit position grows with *)
(* the transaction log.                                                    *)
(***************************************************************************)
\* stream: the name of an aggregate's stream
stream(aggregateType, aggregateID) == aggregateType \o streamSeparator \o aggregateID

StreamNames == { stream(i.type, i.id) : i \in Identities }

\* esdb.EventData of an event
EventData(event) ==
    [EventType |-> Reason(event), Data |-> Marshal(event.Data),
     Metadata |-> IF event.Metadata # NoMetadata THEN Marshal(event.Metadata) ELSE EmptyString]

\* a faulty expectation that is one revision too high: the conditional append is
\* tested against it
ExpectedRevisionOneAhead(version) ==
    IF version > 1 THEN [kind |-> "StreamRevision", value |-> version - 1]
    ELSE IF version = 1 THEN [kind |-> "NoStream", value |-> 0]
    ELSE [kind |-> "Any", value |-> 0]

\* the revision AppendToStream is told to expect
ExpectedRevision(version) ==
    IF version > 1 THEN [kind |-> "StreamRevision", value |-> version - 2]
    ELSE IF version = 1 THEN [kind |-> "NoStream", value |-> 0]
    ELSE [kind |-> "Any", value |-> 0]

\* whether a stream is in the state an append expects
RevisionMatches(expected, recorded) ==
    CASE expected.kind = "Any" -> TRUE
      [] expected.kind = "NoStream" -> recorded = <<>>
      [] OTHER -> Len(recorded) = expected.value + 1

\* the recorded events an append adds to a stream
Recorded(streamID, recorded, esdbEvents) ==
    [i \in 1..Len(esdbEvents) |->
        [StreamID |-> streamID, EventNumber |-> Len(recorded) + i - 1,
         EventType |-> esdbEvents[i].EventType, Data |-> esdbEvents[i].Data,
         UserMetadata |-> esdbEvents[i].Metadata]]

\* the caller's slice after the write: every event gets the write's commit position
ESDBExposed(events, commitPosition) ==
    [i \in 1..Len(events) |-> [events[i] EXCEPT !.GlobalVersion = commitPosition]]

\* ESDB.Save
ESDBSave(c, events) ==
    /\ backend = "esdb"
    /\ CanCall(c)
    /\ allLog + Len(events) <= MaxEvents
    /\ IF events = <<>>
       THEN /\ op' = [op EXCEPT ![c] = SaveOp(c, events)]
            /\ UNCHANGED <<streams, allLog, saved>>
       ELSE LET streamID == stream(events[1].AggregateType, events[1].AggregateID)
                invalid == ValidateEventsNoVersionCheck(events[1].AggregateID, events)
                esdbEvents == [i \in 1..Len(events) |-> EventData(events[i])]
                expected == ExpectedRevision(events[1].Version)
            IN  \E outcome \in {"ok", "ErrMarshal", "ErrUnavailable"} :
                  LET err == IF invalid # NoError THEN invalid
                             ELSE IF outcome # "ok" THEN outcome
                             ELSE IF ~RevisionMatches(expected, streams[streamID])
                                  THEN "ErrWrongExpectedVersion"
                             ELSE NoError
                  IN  IF err # NoError
                      THEN /\ op' = [op EXCEPT ![c] = [SaveOp(c, events) EXCEPT !.err = err]]
                           /\ UNCHANGED <<streams, allLog, saved>>
                      ELSE /\ streams' = [streams EXCEPT ![streamID] =
                                            @ \o Recorded(streamID, @, esdbEvents)]
                           /\ allLog' = allLog + Len(events)
                           /\ saved' = saved \o ESDBExposed(events, allLog + Len(events))
                           /\ op' = [op EXCEPT ![c] =
                                       [SaveOp(c, events) EXCEPT
                                           !.events = ESDBExposed(events, allLog + Len(events))]]
    /\ UNCHANGED <<backend, repository, boltBuckets, aggregateEvents, eventsInOrder, rows, writer>>

(***************************************************************************)
(* Get and the iterators                                                   *)
(***************************************************************************)
GetOp(id, aggregateType, afterVersion) ==
    [IdleOp EXCEPT !.kind = "Get", !.ident = [type |-> aggregateType, id |-> id],
                   !.after = afterVersion, !.before = Persisted, !.mark = Len(saved)]

\* a faulty filter that also drops the event right after afterVersion: the round trip is tested against it
MemoryMatchingOffByOne(bucket, afterVersion) ==
    SelectSeq(bucket, LAMBDA e : e.Version > afterVersion + 1)

\* a faulty filter that leaves out the newest event: the view of whole batches is
\* tested against it
MemoryMatchingWithoutNewest(bucket, afterVersion) ==
    SelectSeq(SubSeq(bucket, 1, Len(bucket) - 1), LAMBDA e : e.Version > afterVersion)

\* the events of a bucket that Memory.Get hands to its iterator
MemoryMatching(bucket, afterVersion) ==
    SelectSeq(bucket, LAMBDA e : e.Version > afterVersion)

\* Memory.Get, under the store's lock
MemoryGet(c, id, aggregateType, afterVersion) ==
    /\ backend = "memory"
    /\ CanCall(c)
    /\ LET events == MemoryMatching(aggregateEvents[aggregateKey(aggregateType, id)],
                                    afterVersion)
       IN  op' = [op EXCEPT ![c] =
                    IF Len(events) = 0
                    THEN [GetOp(id, aggregateType, afterVersion) EXCEPT !.err = "ErrNoEvents"]
                    ELSE [GetOp(id, aggregateType, afterVersion) EXCEPT
                             !.iter = events, !.open = TRUE]]
    /\ UNCHANGED <<backend, repository, boltBuckets, aggregateEvents, eventsInOrder, rows, writer, streams, allLog, saved>>

\* a caller holding an iterator that it has not closed: it calls Next until the
\* first error, and a bounded number of times after the iterator has ended
CanNext(c) ==
    /\ op[c].kind = "Get" /\ op[c].pc = "done" /\ op[c].open /\ ~op[c].closed
    /\ \/ op[c].nextErr = NoError
       \/ op[c].nextErr = "ErrNoMoreEvents" /\ op[c].ended <= MaxNextAfterEnd

\* a faulty Next that hands out an event without moving on: the iterator contract
\* is tested against it
MemoryNextStaysPut(c) ==
    /\ backend = "memory"
    /\ CanNext(c)
    /\ Len(op[c].out) < MaxEvents
    /\ op' = [op EXCEPT ![c] =
                IF Len(op[c].iter) <= op[c].position
                THEN [@ EXCEPT !.nextErr = "ErrNoMoreEvents", !.ended = @ + 1]
                ELSE [@ EXCEPT !.out = Append(@, op[c].iter[op[c].position + 1])]]
    /\ UNCHANGED <<backend, repository, boltBuckets, aggregateEvents, eventsInOrder, rows, writer, streams,
                   allLog, saved>>

\* a faulty Next that reads the store's bucket as it is now instead of the events
\* Get copied: the fixed view of the iterator is tested against it
MemoryNextFromStore(c) ==
    /\ backend = "memory"
    /\ CanNext(c)
    /\ LET live == MemoryMatching(aggregateEvents[aggregateKey(op[c].ident.type,
                                                                op[c].ident.id)],
                                  op[c].after)
       IN  op' = [op EXCEPT ![c] =
                    IF Len(live) <= op[c].position
                    THEN [@ EXCEPT !.nextErr = "ErrNoMoreEvents", !.ended = @ + 1]
                    ELSE [@ EXCEPT !.out = Append(@, live[op[c].position + 1]),
                                   !.position = @ + 1]]
    /\ UNCHANGED <<backend, repository, boltBuckets, aggregateEvents, eventsInOrder, rows, writer, streams, allLog, saved>>

\* iterator.Next of the in-memory store
MemoryNext(c) ==
    /\ backend = "memory"
    /\ CanNext(c)
    /\ op' = [op EXCEPT ![c] =
                IF Len(op[c].iter) <= op[c].position
                THEN [@ EXCEPT !.nextErr = "ErrNoMoreEvents", !.ended = @ + 1]
                ELSE [@ EXCEPT !.out = Append(@, op[c].iter[op[c].position + 1]),
                               !.position = @ + 1]]
    /\ UNCHANGED <<backend, repository, boltBuckets, aggregateEvents, eventsInOrder, rows, writer, streams, allLog, saved>>

RECURSIVE OrderByVersion(_)
\* order by version asc
OrderByVersion(S) ==
    IF S = {} THEN <<>>
    ELSE LET first == CHOOSE r \in S :
                        \A q \in S : r.version < q.version
                                     \/ (r.version = q.version /\ r.seq <= q.seq)
         IN  <<first>> \o OrderByVersion(S \ {first})

\* Select ... where id=? and type=? and version>? order by version asc
SelectEvents(id, aggregateType, afterVersion) ==
    OrderByVersion({ rows[i] : i \in { j \in 1..Len(rows) :
        rows[j].id = id /\ rows[j].type = aggregateType /\ rows[j].version > afterVersion } })

\* SQL.Get: the query's rows go to the iterator, the query may fail; a context
\* that is done when the query returns is reported instead of the iterator
SQLGet(c, id, aggregateType, afterVersion) ==
    /\ backend = "sql"
    /\ CanCall(c)
    /\ \E queried \in BOOLEAN :
         op' = [op EXCEPT ![c] =
                  IF ~queried
                  THEN [GetOp(id, aggregateType, afterVersion) EXCEPT !.err = "ErrDatabase"]
                  ELSE IF ctxDone(c)
                  THEN [GetOp(id, aggregateType, afterVersion) EXCEPT !.err = ctxErr]
                  ELSE [GetOp(id, aggregateType, afterVersion) EXCEPT
                           !.iter = SelectEvents(id, aggregateType, afterVersion),
                           !.open = TRUE]]
    /\ UNCHANGED <<backend, repository, boltBuckets, aggregateEvents, eventsInOrder, rows, writer, streams, allLog, saved>>

\* the event a row of table events is read back as
SQLEvent(row) ==
    [AggregateID |-> row.id, Version |-> row.version, GlobalVersion |-> row.seq,
     AggregateType |-> row.type, Data |-> Unmarshal(row.data),
     Metadata |-> IF row.metadata # EmptyString THEN Unmarshal(row.metadata) ELSE NoMetadata]

RECURSIVE SQLSkip(_, _)
\* the position of the first row after position whose type and reason are registered
SQLSkip(items, position) ==
    IF position >= Len(items) THEN position
    ELSE IF TypeFound(items[position + 1].type, items[position + 1].reason) THEN position
    ELSE SQLSkip(items, position + 1)

\* iterator.Next of the SQL store: rows that are not registered are jumped over
SQLNext(c) ==
    /\ backend = "sql"
    /\ CanNext(c)
    /\ LET position == SQLSkip(op[c].iter, op[c].position)
       IN  op' = [op EXCEPT ![c] =
                    IF Len(op[c].iter) <= position
                    THEN [@ EXCEPT !.nextErr = "ErrNoMoreEvents", !.position = position,
                                   !.ended = @ + 1]
                    ELSE [@ EXCEPT !.out = Append(@, SQLEvent(op[c].iter[position + 1])),
                                   !.position = position + 1]]
    /\ UNCHANGED <<backend, repository, boltBuckets, aggregateEvents, eventsInOrder, rows, writer, streams, allLog, saved>>

\* the recorded events a read from revision `from` delivers
ReadStream(streamID, from) ==
    SelectSeq(streams[streamID], LAMBDA r : r.EventNumber >= from)

\* ESDB.Get: a stream that does not exist is reported by ReadStream or by the
\* first Recv, whichever the client library does
ESDBGet(c, id, aggregateType, afterVersion) ==
    /\ backend = "esdb"
    /\ CanCall(c)
    /\ LET streamID == stream(aggregateType, id)
           exists == streams[streamID] # <<>>
       IN  \E outcome \in {"ok", "ErrUnavailable", "NotFoundAtRead"} :
              /\ outcome = "NotFoundAtRead" => ~exists
              /\ op' = [op EXCEPT ![c] =
                          CASE outcome = "ErrUnavailable" ->
                                 [GetOp(id, aggregateType, afterVersion) EXCEPT !.err = outcome]
                            [] outcome = "NotFoundAtRead" ->
                                 [GetOp(id, aggregateType, afterVersion) EXCEPT
                                     !.err = "ErrNoEvents"]
                            [] ctxDone(c) ->
                                 [GetOp(id, aggregateType, afterVersion) EXCEPT !.err = ctxErr]
                            [] OTHER ->
                                 [GetOp(id, aggregateType, afterVersion) EXCEPT
                                     !.iter = ReadStream(streamID, afterVersion),
                                     !.open = TRUE]]
    /\ UNCHANGED <<backend, repository, boltBuckets, aggregateEvents, eventsInOrder, rows, writer, streams, allLog, saved>>

\* the event iterator.Next of the ESDB store builds from a recorded event
ESDBEvent(recorded) ==
    LET parts == Split(recorded.StreamID, streamSeparator)
    IN  [AggregateID |-> parts[2], Version |-> recorded.EventNumber + 1,
         GlobalVersion |-> 0, AggregateType |-> parts[1],
         Data |-> Unmarshal(recorded.Data),
         Metadata |-> IF recorded.UserMetadata # EmptyString
                      THEN Unmarshal(recorded.UserMetadata) ELSE NoMetadata]

\* a faulty skip that jumps over nothing: the skipping of unregistered events is
\* tested against it
SkipNothing(items, position) == position

RECURSIVE ESDBSkip(_, _)
\* the position of the first recorded event after position that is registered
ESDBSkip(items, position) ==
    IF position >= Len(items) THEN position
    ELSE IF TypeFound(Split(items[position + 1].StreamID, streamSeparator)[1],
                      items[position + 1].EventType) THEN position
    ELSE ESDBSkip(items, position + 1)

\* iterator.Next of the ESDB store: io.EOF and a stream not found end the stream,
\* any other error of Recv is returned as it is
ESDBNext(c) ==
    /\ backend = "esdb"
    /\ CanNext(c)
    /\ LET position == ESDBSkip(op[c].iter, op[c].position)
       IN  \E received \in BOOLEAN :
             /\ ~received => op[c].nextErr = NoError
             /\ op' = [op EXCEPT ![c] =
                    IF ~received THEN [@ EXCEPT !.nextErr = "ErrUnavailable"]
                    ELSE IF Len(op[c].iter) <= position
                    THEN [@ EXCEPT !.nextErr = "ErrNoMoreEvents", !.position = position,
                                   !.ended = @ + 1]
                    ELSE [@ EXCEPT !.out = Append(@, ESDBEvent(op[c].iter[position + 1])),
                                   !.position = position + 1]]
    /\ UNCHANGED <<backend, repository, boltBuckets, aggregateEvents, eventsInOrder, rows, writer, streams, allLog, saved>>

(***************************************************************************)
(* The bbolt store.  Its iterator is in the source; Save and Get are       *)
(* modelled after the stores that are: validated, atomic, one bucket per   *)
(* aggregate, the events of a bucket under the keys 1, 2, ...              *)
(***************************************************************************)
\* the bucket an aggregate's events are kept in
boltBucketName(aggregateType, aggregateID) == [type |-> aggregateType, id |-> aggregateID]

RECURSIVE BoltStored(_)
\* the number of events in a set of buckets
BoltStored(names) ==
    IF names = {} THEN 0
    ELSE LET name == CHOOSE n \in names : TRUE
         IN  Len(boltBuckets[name]) + BoltStored(names \ {name})

\* boltEvent: what the store keeps of an event, serialized
boltEvent(event, globalVersion) ==
    Marshal([AggregateID |-> event.AggregateID, AggregateType |-> event.AggregateType,
             Version |-> event.Version, GlobalVersion |-> globalVersion,
             Reason |-> Reason(event), Metadata |-> event.Metadata,
             Data |-> Marshal(event.Data)])

BoltStamped(events, stored) ==
    [i \in 1..Len(events) |-> [events[i] EXCEPT !.GlobalVersion = stored + i]]

BoltSave(c, events) ==
    /\ backend = "bbolt"
    /\ CanCall(c)
    /\ BoltStored(Identities) + Len(events) <= MaxEvents
    /\ IF Len(events) = 0
       THEN /\ op' = [op EXCEPT ![c] = SaveOp(c, events)]
            /\ UNCHANGED <<boltBuckets, saved>>
       ELSE LET bucketName == boltBucketName(events[1].AggregateType, events[1].AggregateID)
                bucket == boltBuckets[bucketName]
                currentVersion == Len(bucket)
                err == ValidateEvents(events[1].AggregateID, currentVersion, events)
                stamped == BoltStamped(events, BoltStored(Identities))
            IN  IF err # NoError
                THEN /\ op' = [op EXCEPT ![c] = [SaveOp(c, events) EXCEPT !.err = err]]
                     /\ UNCHANGED <<boltBuckets, saved>>
                ELSE /\ boltBuckets' =
                            [boltBuckets EXCEPT ![bucketName] =
                                bucket \o [i \in 1..Len(events) |->
                                              boltEvent(events[i], stamped[i].GlobalVersion)]]
                     /\ saved' = saved \o stamped
                     /\ op' = [op EXCEPT ![c] = [SaveOp(c, events) EXCEPT !.events = stamped]]
    /\ UNCHANGED <<backend, repository, aggregateEvents, eventsInOrder, rows, writer, streams,
                   allLog>>

\* Get of the bbolt store: a read transaction and an iterator that starts at the
\* key after afterVersion; a bucket that does not exist shows at the first Next
BoltGet(c, id, aggregateType, afterVersion) ==
    /\ backend = "bbolt"
    /\ CanCall(c)
    /\ op' = [op EXCEPT ![c] =
                [GetOp(id, aggregateType, afterVersion) EXCEPT
                    !.iter = boltBuckets[boltBucketName(aggregateType, id)],
                    !.firstEventIndex = afterVersion + 1, !.open = TRUE]]
    /\ UNCHANGED <<backend, repository, boltBuckets, aggregateEvents, eventsInOrder, rows, writer, streams,
                   allLog, saved>>

\* the event iterator.Next of the bbolt store builds from a stored boltEvent
BoltEvent(obj) ==
    LET bEvent == Unmarshal(obj)
    IN  [AggregateID |-> bEvent.AggregateID, AggregateType |-> bEvent.AggregateType,
         Version |-> bEvent.Version, GlobalVersion |-> bEvent.GlobalVersion,
         Metadata |-> bEvent.Metadata, Data |-> Unmarshal(bEvent.Data)]

RECURSIVE BoltSkip(_, _)
\* the first key from k on whose event is registered
BoltSkip(items, k) ==
    IF k > Len(items) THEN k
    ELSE IF TypeFound(Unmarshal(items[k]).AggregateType, Unmarshal(items[k]).Reason) THEN k
    ELSE BoltSkip(items, k + 1)

\* iterator.Next of the bbolt store: the first call seeks firstEventIndex, the
\* later ones move the cursor on; events that are not registered are jumped over
BoltNext(c) ==
    /\ backend = "bbolt"
    /\ CanNext(c)
    /\ LET from == IF ~op[c].cursor THEN op[c].firstEventIndex ELSE op[c].position + 1
           k == BoltSkip(op[c].iter, from)
       IN  \E decoded \in BOOLEAN :
             /\ ~decoded => from <= Len(op[c].iter) /\ op[c].nextErr = NoError
             /\ op' = [op EXCEPT ![c] =
                    IF ~op[c].cursor /\ op[c].iter = <<>>
                    THEN [@ EXCEPT !.nextErr = "ErrNoMoreEvents", !.ended = @ + 1]
                    ELSE IF ~decoded
                    THEN [@ EXCEPT !.nextErr = "ErrDeserialize", !.cursor = TRUE,
                                   !.position = from]
                    ELSE IF k > Len(op[c].iter)
                    THEN [@ EXCEPT !.nextErr = "ErrNoMoreEvents", !.ended = @ + 1,
                                   !.cursor = TRUE, !.position = Len(op[c].iter)]
                    ELSE [@ EXCEPT !.out = Append(@, BoltEvent(op[c].iter[k])),
                                   !.cursor = TRUE, !.position = k]]
    /\ UNCHANGED <<backend, repository, boltBuckets, aggregateEvents, eventsInOrder, rows, writer, streams,
                   allLog, saved>>

(***************************************************************************)
(* Close of the iterators                                                  *)
(***************************************************************************)
\* a caller holding an iterator it has not closed, whatever Next returned last
CanClose(c) == op[c].kind = "Get" /\ op[c].pc = "done" /\ op[c].open /\ ~op[c].closed

\* iterator.Close of the in-memory store: the events are dropped
MemoryClose(c) ==
    /\ backend = "memory"
    /\ CanClose(c)
    /\ op' = [op EXCEPT ![c] = [@ EXCEPT !.iter = <<>>, !.position = 0, !.closed = TRUE,
                                        !.closedAt = op[c].nextErr]]
    /\ UNCHANGED <<backend, repository, boltBuckets, aggregateEvents, eventsInOrder, rows, writer, streams,
                   allLog, saved>>

\* iterator.Close of the SQL store: the rows are released
SQLClose(c) ==
    /\ backend = "sql"
    /\ CanClose(c)
    /\ op' = [op EXCEPT ![c] = [@ EXCEPT !.closed = TRUE, !.closedAt = op[c].nextErr]]
    /\ UNCHANGED <<backend, repository, boltBuckets, aggregateEvents, eventsInOrder, rows, writer, streams,
                   allLog, saved>>

\* iterator.Close of the ESDB store: the read stream is closed
ESDBClose(c) ==
    /\ backend = "esdb"
    /\ CanClose(c)
    /\ op' = [op EXCEPT ![c] = [@ EXCEPT !.closed = TRUE, !.closedAt = op[c].nextErr]]
    /\ UNCHANGED <<backend, repository, boltBuckets, aggregateEvents, eventsInOrder, rows, writer, streams,
                   allLog, saved>>

\* iterator.Close of the bbolt store: the read transaction is rolled back
BoltClose(c) ==
    /\ backend = "bbolt"
    /\ CanClose(c)
    /\ op' = [op EXCEPT ![c] = [@ EXCEPT !.closed = TRUE, !.closedAt = op[c].nextErr]]
    /\ UNCHANGED <<backend, repository, boltBuckets, aggregateEvents, eventsInOrder, rows, writer, streams,
                   allLog, saved>>

(***************************************************************************)
(* Aggregates, snapshots and subscriptions                                 *)
(***************************************************************************)
NoName == <<>>
BornName == <<"A", "l", "i", "c", "e">>

\* an aggregate a caller has declared and not used yet (Person[T]{})
ZeroAggregate ==
    [id |-> EmptyString, type |-> EmptyString, Version |-> 0, GlobalVersion |-> 0,
     events |-> <<>>, Name |-> NoName, Age |-> 0, history |-> <<>>, origin |-> "none"]

\* Person.Transition: the domain fields after an event
Transition(person, event) ==
    CASE event.Data = "Born" -> [person EXCEPT !.Age = 0, !.Name = BornName]
      [] event.Data = "AgedOneYear" -> [person EXCEPT !.Age = @ + 1]
      [] OTHER -> person

\* AggregateRoot.TrackChange: the event gets the next Version, is put on the
\* unsaved buffer and is applied
TrackChangeOn(person, payload) ==
    LET event == NewEvent([type |-> person.type, id |-> person.id], person.Version + 1, payload)
    IN  [Transition(person, event) EXCEPT
            !.Version = event.Version, !.events = Append(@, event),
            !.history = Append(@, event)]

RECURSIVE BuildFromHistoryKeepsVersion(_, _)
\* a faulty replay that leaves the Version where it was: the replay property is
\* tested against it
BuildFromHistoryKeepsVersion(person, events) ==
    IF events = <<>> THEN person
    ELSE BuildFromHistoryKeepsVersion(
             [Transition(person, events[1]) EXCEPT
                 !.GlobalVersion = events[1].GlobalVersion,
                 !.history = Append(@, events[1])],
             Tail(events))

RECURSIVE BuildFromHistory(_, _)
\* AggregateRoot.BuildFromHistory: the events are applied in order; Version and
\* GlobalVersion become those of the last one; the unsaved buffer is left alone
BuildFromHistory(person, events) ==
    IF events = <<>> THEN person
    ELSE BuildFromHistory(
             [Transition(person, events[1]) EXCEPT
                 !.Version = events[1].Version,
                 !.GlobalVersion = events[1].GlobalVersion,
                 !.history = Append(@, events[1])],
             Tail(events))

\* AggregateRoot.UnsavedEvents
UnsavedEvents(root) == Len(root.events) > 0

NoSnapshot == [ID |-> EmptyString, Type |-> EmptyString, State |-> <<>>, Version |-> 0,
               GlobalVersion |-> 0]

\* the fields of an aggregate that a snapshot captures
StateOf(person) == [Name |-> person.Name, Age |-> person.Age]

Handlers == {"h1", "h2"}

\* what a handler is subscribed to: every event, or the events of one aggregate type
Predicates ==
    { [kind |-> "All", type |-> EmptyString], [kind |-> "Aggregate", type |-> <<"a">>] }

\* a handler's subscription, with the events it was handed (seen) and, for the
\* record, those published before it was registered and after it was closed
NoSubscription ==
    [status |-> "none", predicate |-> [kind |-> "All", type |-> EmptyString],
     seen |-> <<>>, earlier |-> <<>>, later |-> <<>>]

\* a repository call: the call a caller is in (pc "read": GetWithContext between
\* the snapshot and the replay) or the outcome of its last one
NoCall ==
    [kind |-> "none", pc |-> "done", err |-> NoError, ident |-> NoIdentity,
     before |-> ZeroAggregate, cancel |-> "never", snap |-> NoSnapshot,
     batch |-> <<>>, snapshotsBefore |-> <<>>, hook |-> FALSE]

InitRepository ==
    /\ aggregate = [c \in Callers |-> ZeroAggregate]
    /\ snapshots = [k \in Identities |-> NoSnapshot]
    /\ subscriptions = [h \in Handlers |-> NoSubscription]
    /\ call = [c \in Callers |-> NoCall]

Init ==
    /\ InitRepository
    /\ backend \in Backends
    /\ aggregateEvents = [k \in BucketNames |-> <<>>]
    /\ eventsInOrder = <<>>
    /\ rows = <<>>
    /\ writer = NoCaller
    /\ streams = [k \in StreamNames |-> <<>>]
    /\ allLog = 0
    /\ boltBuckets = [k \in Identities |-> <<>>]
    /\ op = [c \in Callers |-> IdleOp]
    /\ saved = <<>>

Save(c, events) ==
    \/ MemorySave(c, events)
    \/ SQLSaveBegin(c, events)
    \/ ESDBSave(c, events)

Get(c, id, aggregateType, afterVersion) ==
    \/ MemoryGet(c, id, aggregateType, afterVersion)
    \/ SQLGet(c, id, aggregateType, afterVersion)
    \/ ESDBGet(c, id, aggregateType, afterVersion)

IteratorNext(c) ==
    \/ MemoryNext(c)
    \/ SQLNext(c)
    \/ ESDBNext(c)

Next ==
    \/ \E events \in Batches : Save("c1", events)
    \/ SQLSaveInsert("c1")
    \/ SQLSaveCommit("c1")
    \/ \E i \in Identities, afterVersion \in 0..MaxVersion : Get("c1", i.id, i.type, afterVersion)
    \/ IteratorNext("c1")
    \/ Return("c1")

\* one caller at a time: every call returns before the next one starts
Spec == Init /\ [][Next]_vars

(***************************************************************************)
(* The iterators of all four stores, with Close and with Next called on    *)
(* after the end of the stream.                                            *)
(***************************************************************************)
InitIterators ==
    /\ InitRepository
    /\ backend \in Backends \cup {"bbolt"}
    /\ aggregateEvents = [k \in BucketNames |-> <<>>]
    /\ eventsInOrder = <<>>
    /\ rows = <<>>
    /\ writer = NoCaller
    /\ streams = [k \in StreamNames |-> <<>>]
    /\ allLog = 0
    /\ boltBuckets = [k \in Identities |-> <<>>]
    /\ op = [c \in Callers |-> IdleOp]
    /\ saved = <<>>

IteratorClose(c) ==
    \/ MemoryClose(c)
    \/ SQLClose(c)
    \/ ESDBClose(c)
    \/ BoltClose(c)

NextIterators ==
    \/ \E events \in Batches : Save("c1", events) \/ BoltSave("c1", events)
    \/ SQLSaveInsert("c1")
    \/ SQLSaveCommit("c1")
    \/ \E i \in Identities, afterVersion \in 0..MaxVersion :
          \/ Get("c1", i.id, i.type, afterVersion)
          \/ BoltGet("c1", i.id, i.type, afterVersion)
    \/ IteratorNext("c1") \/ BoltNext("c1")
    \/ IteratorClose("c1")
    \/ Return("c1")

SpecIterators == InitIterators /\ [][NextIterators]_vars

(***************************************************************************)
(* GlobalEvents of the in-memory store and of the SQL store.  start and    *)
(* count are uint64: a count below 0 stands for that count + 2^64, so that *)
(* count-- of 0 gives the largest uint64, written -1.                      *)
(***************************************************************************)
GlobalOp(start, count) ==
    [IdleOp EXCEPT !.kind = "GlobalEvents", !.start = start, !.count = count,
                   !.before = Persisted, !.mark = Len(saved)]

RECURSIVE MemoryGlobalLoop(_, _, _, _)
\* the loop of Memory.GlobalEvents from the i-th event of eventsInOrder on: an
\* event at or after start is appended, count-- and the loop ends at count 0
MemoryGlobalLoop(i, start, count, events) ==
    IF i > Len(eventsInOrder) THEN events
    ELSE IF eventsInOrder[i].GlobalVersion >= start
         THEN IF count - 1 = 0 THEN Append(events, eventsInOrder[i])
              ELSE MemoryGlobalLoop(i + 1, start, count - 1, Append(events, eventsInOrder[i]))
    ELSE MemoryGlobalLoop(i + 1, start, count, events)

\* Memory.GlobalEvents, under the store's lock
MemoryGlobalEvents(c, start, count) ==
    /\ backend = "memory"
    /\ CanCall(c)
    /\ op' = [op EXCEPT ![c] =
                [GlobalOp(start, count) EXCEPT !.out = MemoryGlobalLoop(1, start, count, <<>>)]]
    /\ UNCHANGED <<backend, repository, boltBuckets, aggregateEvents, eventsInOrder, rows, writer, streams, allLog, saved>>

\* Select ... where seq >= ? order by seq asc LIMIT ?
SelectGlobal(start, count) ==
    LET among == SelectSeq(rows, LAMBDA r : r.seq >= start)
    IN  SubSeq(among, 1, IF count < Len(among) THEN count ELSE Len(among))

\* SQL.eventsFromRows: the rows whose type and reason are registered, as events
eventsFromRows(selected) ==
    LET registered == SelectSeq(selected, LAMBDA r : TypeFound(r.type, r.reason))
    IN  [i \in 1..Len(registered) |-> SQLEvent(registered[i])]

\* SQL.GlobalEvents: the query may fail
SQLGlobalEvents(c, start, count) ==
    /\ backend = "sql"
    /\ CanCall(c)
    /\ \E queried \in BOOLEAN :
         op' = [op EXCEPT ![c] =
                  IF ~queried THEN [GlobalOp(start, count) EXCEPT !.err = "ErrDatabase"]
                  ELSE [GlobalOp(start, count) EXCEPT
                           !.out = eventsFromRows(SelectGlobal(start, count))]]
    /\ UNCHANGED <<backend, repository, boltBuckets, aggregateEvents, eventsInOrder, rows, writer, streams, allLog, saved>>

GlobalEvents(c, start, count) ==
    \/ MemoryGlobalEvents(c, start, count)
    \/ SQLGlobalEvents(c, start, count)

InitGlobalEvents ==
    /\ InitRepository
    /\ backend \in {"memory", "sql"}
    /\ aggregateEvents = [k \in BucketNames |-> <<>>]
    /\ eventsInOrder = <<>>
    /\ rows = <<>>
    /\ writer = NoCaller
    /\ streams = [k \in StreamNames |-> <<>>]
    /\ allLog = 0
    /\ boltBuckets = [k \in Identities |-> <<>>]
    /\ op = [c \in Callers |-> IdleOp]
    /\ saved = <<>>

NextGlobalEvents ==
    \/ \E events \in Batches : MemorySave("c1", events) \/ SQLSaveBegin("c1", events)
    \/ SQLSaveInsert("c1")
    \/ SQLSaveCommit("c1")
    \/ \E start \in 0..MaxEvents + 1, count \in 0..MaxEvents + 1 : GlobalEvents("c1", start, count)
    \/ Return("c1")

\* a caller that saves batches and reads the global order
SpecGlobalEvents == InitGlobalEvents /\ [][NextGlobalEvents]_vars

(***************************************************************************)
(* Concurrent callers: each loads an aggregate, tracks changes on its copy *)
(* and saves them, while the other does the same.                          *)
(***************************************************************************)
\* the aggregates the concurrent callers work on
RaceIdentities ==
    { [type |-> <<"a", "_", "b">>, id |-> <<"c">>],
      [type |-> <<"a", "-", "b">>, id |-> <<"c">>] }

\* the Version the store holds an aggregate at
CurrentVersion(ident) ==
    CASE backend = "memory" ->
           LET evBucket == aggregateEvents[aggregateKey(ident.type, ident.id)]
           IN  IF Len(evBucket) > 0 THEN evBucket[Len(evBucket)].Version ELSE 0
      [] backend = "sql" -> SelectVersion(ident.id, ident.type)
      [] OTHER -> Len(streams[stream(ident.type, ident.id)])

\* a caller gets the aggregate at the Version the store holds
Load(c, ident) ==
    /\ op[c].kind = "idle"
    /\ op' = [op EXCEPT ![c] =
                [IdleOp EXCEPT !.kind = "Load", !.ident = ident, !.seen = CurrentVersion(ident)]]
    /\ UNCHANGED <<backend, repository, boltBuckets, aggregateEvents, eventsInOrder, rows, writer, streams, allLog, saved>>

\* the events a caller tracked on the aggregate it loaded
TrackedBatch(ident, seen, n) ==
    [i \in 1..n |-> NewEvent(ident, seen + i, BornPayload)]

SaveLoaded(c) ==
    /\ op[c].kind = "Load"
    /\ \E n \in 1..MaxBatch : Save(c, TrackedBatch(op[c].ident, op[c].seen, n))

NextRace ==
    \E c \in Callers :
        \/ \E ident \in RaceIdentities : Load(c, ident)
        \/ SaveLoaded(c)
        \/ SQLSaveInsert(c)
        \/ SQLSaveCommit(c)
        \/ Return(c)

SpecRace == Init /\ [][NextRace]_vars

(***************************************************************************)
(* The in-memory store with concurrent callers: one saves while the other  *)
(* gets events and drains or closes its iterator.                          *)
(***************************************************************************)
\* two aggregates whose bucket in the in-memory store is the same; the callers of
\* the repository work with them: one is snapshotted by the serializer, the other
\* by its own Marshal
RepositoryIdentities ==
    { [type |-> <<"a", "_", "b">>, id |-> <<"c">>],
      [type |-> <<"a">>,           id |-> <<"b", "_", "c">>] }

\* the batches the concurrent callers save: those of the two aggregates whose
\* bucket is the same
MemoryBatches ==
    { b \in Batches : b = <<>> \/ IdentityOf(b[1]) \in RepositoryIdentities }

\* iterator.Next of the in-memory store on an iterator that was closed
MemoryNextClosed(c) ==
    /\ backend = "memory"
    /\ op[c].kind = "Get" /\ op[c].pc = "done" /\ op[c].closed
    /\ op[c].ended <= MaxNextAfterEnd
    /\ op' = [op EXCEPT ![c] =
                IF Len(op[c].iter) <= op[c].position
                THEN [@ EXCEPT !.nextErr = "ErrNoMoreEvents", !.ended = @ + 1]
                ELSE [@ EXCEPT !.out = Append(@, op[c].iter[op[c].position + 1]),
                               !.position = @ + 1]]
    /\ UNCHANGED <<backend, repository, boltBuckets, aggregateEvents, eventsInOrder, rows, writer, streams,
                   allLog, saved>>

InitMemory ==
    /\ InitRepository
    /\ backend = "memory"
    /\ aggregateEvents = [k \in BucketNames |-> <<>>]
    /\ eventsInOrder = <<>>
    /\ rows = <<>>
    /\ writer = NoCaller
    /\ streams = [k \in StreamNames |-> <<>>]
    /\ allLog = 0
    /\ boltBuckets = [k \in Identities |-> <<>>]
    /\ op = [c \in Callers |-> IdleOp]
    /\ saved = <<>>

NextMemory ==
    \/ \E events \in MemoryBatches : MemorySave("c1", events)
    \/ Return("c1")
    \/ \E i \in RepositoryIdentities, afterVersion \in 0..MaxVersion :
          MemoryGet("c2", i.id, i.type, afterVersion)
    \/ MemoryNext("c2")
    \/ MemoryClose("c2")
    \/ MemoryNextClosed("c2")
    \/ Return("c2")

\* a writer and a reader of the in-memory store, at the same time
SpecMemory == InitMemory /\ [][NextMemory]_vars

(***************************************************************************)
(* The repository: a caller creates or gets an aggregate, tracks changes,  *)
(* saves them and snapshots the aggregate, while handlers subscribe to the *)
(* events and close their subscriptions.                                   *)
(***************************************************************************)
\* the caller is in no call; it drops the outcome of its last call when it goes on
Idle(c) == op[c].kind = "idle" /\ call[c].pc = "done"

IdentityOfAggregate(root) == [type |-> root.type, id |-> root.id]

\* CreatePerson: a new aggregate with its ID set and Born tracked
CreatePerson(c, ident) ==
    /\ Idle(c)
    /\ aggregate' = [aggregate EXCEPT ![c] =
                       TrackChangeOn([ZeroAggregate EXCEPT !.id = ident.id, !.type = ident.type,
                                                           !.origin = "created"],
                                     BornPayload)]
    /\ call' = [call EXCEPT ![c] = NoCall]
    /\ UNCHANGED <<backend, snapshots, subscriptions, boltBuckets, aggregateEvents,
                   eventsInOrder, rows, writer, streams, allLog, op, saved>>

\* an aggregate that is declared and given no ID
DeclarePerson(c, aggregateType) ==
    /\ Idle(c)
    /\ aggregate' = [aggregate EXCEPT ![c] =
                       [ZeroAggregate EXCEPT !.type = aggregateType, !.origin = "declared"]]
    /\ call' = [call EXCEPT ![c] = NoCall]
    /\ UNCHANGED <<backend, snapshots, subscriptions, boltBuckets, aggregateEvents,
                   eventsInOrder, rows, writer, streams, allLog, op, saved>>

\* a domain operation on the aggregate the caller holds
TrackChange(c, payload) ==
    /\ Idle(c)
    /\ aggregate[c].id # EmptyString
    /\ Len(aggregate[c].events) < MaxBatch
    /\ aggregate[c].Version < MaxVersion
    /\ aggregate' = [aggregate EXCEPT ![c] = TrackChangeOn(@, payload)]
    /\ call' = [call EXCEPT ![c] = NoCall]
    /\ UNCHANGED <<backend, snapshots, subscriptions, boltBuckets, aggregateEvents,
                   eventsInOrder, rows, writer, streams, allLog, op, saved>>

\* Repository.Save without a batch to store: EmptyID, or nothing to do
SaveNothing(c) ==
    /\ Idle(c)
    /\ aggregate[c].origin # "none"
    /\ aggregate[c].id = EmptyString \/ aggregate[c].events = <<>>
    /\ call' = [call EXCEPT ![c] =
                  [NoCall EXCEPT !.kind = "Save",
                                 !.err = IF aggregate[c].id = EmptyString
                                         THEN "ErrEmptyID" ELSE NoError]]
    /\ UNCHANGED <<backend, aggregate, snapshots, subscriptions, boltBuckets, aggregateEvents,
                   eventsInOrder, rows, writer, streams, allLog, op, saved>>

\* Repository.Save: the unsaved buffer goes to the event store
SaveEvents(c) ==
    /\ Idle(c)
    /\ aggregate[c].id # EmptyString /\ aggregate[c].events # <<>>
    /\ Save(c, aggregate[c].events)

Holds(events, e) == \E i \in 1..Len(events) : events[i] = e

\* whether an event is one a subscription is for
Matches(predicate, event) ==
    \/ predicate.kind = "All"
    \/ predicate.kind = "Aggregate" /\ event.AggregateType = predicate.type

\* a faulty dispatch that hands the events over newest first: the subscription
\* property is tested against it
DeliverNewestFirst(subscription, events) ==
    LET matching == SelectSeq(events, LAMBDA e : Matches(subscription.predicate, e))
    IN  CASE subscription.status = "active" ->
               [subscription EXCEPT !.seen =
                   @ \o [i \in 1..Len(matching) |-> matching[Len(matching) + 1 - i]]]
          [] subscription.status = "none" -> [subscription EXCEPT !.earlier = @ \o events]
          [] OTHER -> [subscription EXCEPT !.later = @ \o events]

\* the dispatch of a committed batch to one handler: an active subscription is
\* handed the events it is for, in order; for the others the batch is noted as
\* published before they were registered or after they were closed
Deliver(subscription, events) ==
    CASE subscription.status = "active" ->
           [subscription EXCEPT !.seen =
               @ \o SelectSeq(events, LAMBDA e : Matches(subscription.predicate, e))]
      [] subscription.status = "none" -> [subscription EXCEPT !.earlier = @ \o events]
      [] OTHER -> [subscription EXCEPT !.later = @ \o events]

\* Repository.Save returns: after a commit the unsaved buffer is cleared, the
\* aggregate takes the GlobalVersion of its last event and every event is published
SaveReturn(c) ==
    /\ op[c].kind = "Save" /\ op[c].pc = "done"
    /\ call[c].pc = "done"
    /\ LET events == op[c].events
           committed == op[c].err = NoError
       IN  /\ aggregate' = [aggregate EXCEPT ![c] =
                              IF committed
                              THEN [@ EXCEPT !.events = <<>>,
                                             !.GlobalVersion = events[Len(events)].GlobalVersion]
                              ELSE @]
           /\ subscriptions' = [h \in Handlers |->
                                  IF committed THEN Deliver(subscriptions[h], events)
                                  ELSE subscriptions[h]]
           /\ call' = [call EXCEPT ![c] =
                         [NoCall EXCEPT !.kind = "Save", !.err = op[c].err,
                                        !.batch = IF committed THEN events ELSE <<>>]]
    /\ op' = [op EXCEPT ![c] = IdleOp]
    /\ UNCHANGED <<backend, snapshots, boltBuckets, aggregateEvents,
                   eventsInOrder, rows, writer, streams, allLog, saved>>

\* a faulty registration that replays what was published before: the absence of
\* a backlog is tested against it
SubscriptionWithBacklog(subscription, predicate) ==
    [subscription EXCEPT !.status = "active", !.predicate = predicate,
                         !.seen = SelectSeq(subscription.earlier,
                                            LAMBDA e : Matches(predicate, e))]

\* the subscription a registration creates: it has been handed nothing
NewSubscription(subscription, predicate) ==
    [subscription EXCEPT !.status = "active", !.predicate = predicate, !.seen = <<>>]

\* Subscribe: the handler is registered for the events of a predicate
Subscribe(h, predicate) ==
    /\ subscriptions[h].status = "none"
    /\ subscriptions' = [subscriptions EXCEPT ![h] = NewSubscription(@, predicate)]
    /\ UNCHANGED <<backend, aggregate, snapshots, call, boltBuckets, aggregateEvents,
                   eventsInOrder, rows, writer, streams, allLog, op, saved>>

\* subscription.Close: the handler is deregistered
Close(h) ==
    /\ subscriptions[h].status = "active"
    /\ subscriptions' = [subscriptions EXCEPT ![h].status = "closed"]
    /\ UNCHANGED <<backend, aggregate, snapshots, call, boltBuckets, aggregateEvents,
                   eventsInOrder, rows, writer, streams, allLog, op, saved>>

\* the aggregate types that are SnapshotAggregates: they bring their own
\* Marshal and Unmarshal, the others are marshalled by the serializer
SnapshotAggregateTypes == { <<"a">> }

\* what an aggregate's own Marshal and Unmarshal do with its hidden fields
MarshalHook(state) == <<"hook", state.Age, state.Name>>
UnmarshalHook(b) == [Name |-> b[3], Age |-> b[2]]

\* a faulty validation that looks at the ID only: the refusal to snapshot unsaved
\* events is tested against it
validateIDOnly(root) ==
    IF root.id = EmptyString THEN "ErrEmptyID" ELSE NoError

\* validate: the aggregate has an ID and no unsaved events
validate(root) ==
    IF root.id = EmptyString THEN "ErrEmptyID"
    ELSE IF UnsavedEvents(root) THEN "ErrUnsavedEvents"
    ELSE NoError

\* the Snapshot saveSnapshotAggregate builds
saveSnapshotAggregate(root) ==
    [ID |-> root.id, Type |-> root.type, Version |-> root.Version,
     GlobalVersion |-> root.GlobalVersion, State |-> MarshalHook(StateOf(root))]

\* the Snapshot saveAggregate builds
saveAggregate(root) ==
    [ID |-> root.id, Type |-> root.type, Version |-> root.Version,
     GlobalVersion |-> root.GlobalVersion, State |-> Marshal(StateOf(root))]

\* Repository.SaveSnapshot, SnapshotHandler.Save: the aggregate is validated and
\* marshalled, by its own Marshal where it has one, and the snapshot is stored
SaveSnapshot(c) ==
    /\ Idle(c)
    /\ aggregate[c].origin # "none"
    /\ LET root == aggregate[c]
           hook == root.type \in SnapshotAggregateTypes
       IN  \E marshalled \in BOOLEAN, stored \in BOOLEAN :
             LET err == IF validate(root) # NoError THEN validate(root)
                        ELSE IF ~marshalled THEN "ErrMarshal"
                        ELSE IF ~stored THEN "ErrSnapshotStore"
                        ELSE NoError
             IN  /\ (validate(root) # NoError) => (marshalled /\ stored)
                 /\ ~marshalled => stored
                 /\ snapshots' =
                      IF err = NoError
                      THEN [snapshots EXCEPT ![IdentityOfAggregate(root)] =
                              IF hook THEN saveSnapshotAggregate(root) ELSE saveAggregate(root)]
                      ELSE snapshots
                 /\ call' = [call EXCEPT ![c] =
                               [NoCall EXCEPT !.kind = "SaveSnapshot", !.err = err,
                                              !.before = root, !.hook = hook,
                                              !.ident = IdentityOfAggregate(root),
                                              !.snapshotsBefore = snapshots]]
    /\ UNCHANGED <<backend, aggregate, subscriptions, boltBuckets, aggregateEvents,
                   eventsInOrder, rows, writer, streams, allLog, op, saved>>

\* a faulty load that takes the state and leaves Version and GlobalVersion alone:
\* the snapshot round trip is tested against it
LoadStateOnly(root, snap) ==
    LET state == IF root.type \in SnapshotAggregateTypes
                 THEN UnmarshalHook(snap.State) ELSE Unmarshal(snap.State)
    IN  [root EXCEPT !.Name = state.Name, !.Age = state.Age, !.id = snap.ID,
                     !.origin = "snapshot"]

\* SnapshotHandler.Get once the snapshot is found: the state is unmarshalled into
\* the aggregate, then setInternals(snap.ID, snap.Version, snap.GlobalVersion)
LoadSnapshot(root, snap) ==
    LET state == IF root.type \in SnapshotAggregateTypes
                 THEN UnmarshalHook(snap.State) ELSE Unmarshal(snap.State)
    IN  [root EXCEPT !.Name = state.Name, !.Age = state.Age, !.id = snap.ID,
                     !.Version = snap.Version, !.GlobalVersion = snap.GlobalVersion,
                     !.origin = "snapshot"]

\* the points at which the context of a GetWithContext becomes done
Cancels == {"never", "before", "during"}

\* Repository.GetWithContext up to the store read: the latest snapshot, if there
\* is one, is loaded into the aggregate the caller passes; a context that is done
\* ends the call before the events are read
GetSnapshot(c, ident, cancel) ==
    /\ Idle(c)
    /\ LET template == [ZeroAggregate EXCEPT !.type = ident.type, !.origin = "declared"]
           snap == snapshots[ident]
       IN  \E observed \in BOOLEAN :
             \* whether the snapshot store looks at a context that is done
             /\ observed => cancel = "before"
             /\ aggregate' = [aggregate EXCEPT ![c] =
                                IF snap = NoSnapshot \/ observed THEN template
                                ELSE LoadSnapshot(template, snap)]
             /\ call' = [call EXCEPT ![c] =
                           [NoCall EXCEPT !.kind = "Get", !.ident = ident, !.cancel = cancel,
                                          !.before = template,
                                          !.snap = IF observed THEN NoSnapshot ELSE snap,
                                          !.pc = IF cancel = "before" THEN "done" ELSE "read",
                                          !.err = IF cancel = "before" THEN ctxErr
                                                  ELSE NoError]]
    /\ UNCHANGED <<backend, snapshots, subscriptions, boltBuckets, aggregateEvents,
                   eventsInOrder, rows, writer, streams, allLog, op, saved>>

\* GetWithContext asks the event store for the events after the aggregate's Version
GetEvents(c) ==
    /\ call[c].pc = "read"
    /\ op[c].kind = "idle"
    /\ Get(c, call[c].ident.id, call[c].ident.type, aggregate[c].Version)

\* GetWithContext draws the events from the iterator up to the first error,
\* unless the context is done
NextEvent(c) ==
    /\ call[c].pc = "read" /\ call[c].cancel = "never"
    /\ op[c].nextErr = NoError
    /\ IteratorNext(c)

\* the error GetWithContext returns once the store has answered and the iterator
\* has ended
GetError(c) ==
    CASE call[c].cancel = "during" -> ctxErr
      [] op[c].err = "ErrNoEvents" ->
           IF call[c].snap = NoSnapshot THEN "ErrNoEvents" ELSE NoError
      [] op[c].err # NoError -> op[c].err
      [] op[c].nextErr # "ErrNoMoreEvents" -> op[c].nextErr
      [] op[c].out = <<>> /\ call[c].snap = NoSnapshot -> "ErrNoEvents"
      [] OTHER -> NoError

\* GetWithContext returns: the context is looked at again when the store has
\* answered; the events read are replayed by BuildFromHistory and the iterator is
\* closed
GetReplay(c) ==
    /\ call[c].pc = "read"
    /\ op[c].kind = "Get" /\ op[c].pc = "done"
    /\ op[c].err # NoError \/ op[c].nextErr # NoError \/ call[c].cancel = "during"
    /\ aggregate' = [aggregate EXCEPT ![c] =
                       IF GetError(c) = NoError /\ op[c].open
                       THEN [BuildFromHistory(@, op[c].out) EXCEPT
                                !.id = call[c].ident.id, !.origin = "store"]
                       ELSE @]
    /\ call' = [call EXCEPT ![c] = [@ EXCEPT !.pc = "done", !.err = GetError(c),
                                             !.batch = op[c].out]]
    /\ op' = [op EXCEPT ![c] = IdleOp]
    /\ UNCHANGED <<backend, snapshots, subscriptions, boltBuckets, aggregateEvents,
                   eventsInOrder, rows, writer, streams, allLog, saved>>

NextRepository ==
    \/ \E ident \in RepositoryIdentities : CreatePerson("c1", ident)
    \/ DeclarePerson("c1", <<"a">>)
    \/ \E payload \in Payloads : TrackChange("c1", payload)
    \/ SaveNothing("c1")
    \/ SaveEvents("c1")
    \/ SQLSaveInsert("c1")
    \/ SQLSaveCommit("c1")
    \/ SaveReturn("c1")
    \/ SaveSnapshot("c1")
    \/ \E ident \in RepositoryIdentities, cancel \in Cancels : GetSnapshot("c1", ident, cancel)
    \/ GetEvents("c1")
    \/ NextEvent("c1")
    \/ GetReplay("c1")

\* a caller that creates, gets, saves and snapshots aggregates
SpecRepository == Init /\ [][NextRepository]_vars

NextSubscriptions ==
    \/ \E ident \in RepositoryIdentities : CreatePerson("c1", ident)
    \/ \E payload \in Payloads : TrackChange("c1", payload)
    \/ SaveEvents("c1")
    \/ SQLSaveInsert("c1")
    \/ SQLSaveCommit("c1")
    \/ SaveReturn("c1")
    \/ \E h \in Handlers, predicate \in Predicates : Subscribe(h, predicate)
    \/ \E h \in Handlers : Close(h)

\* a caller that saves aggregates while handlers subscribe and close
SpecSubscriptions == Init /\ [][NextSubscriptions]_vars

(***************************************************************************)
(* Properties                                                              *)
(***************************************************************************)
\* errors that come from the serializer or the database failing, whatever the events
Faults == {"ErrMarshal", "ErrDatabase", "ErrUnavailable"}

SaveDone(c) == op[c].kind = "Save" /\ op[c].pc = "done" /\ op[c].input # <<>>

GetDone(c) == op[c].kind = "Get" /\ op[c].pc = "done"

Drained(c) == GetDone(c) /\ op[c].open /\ op[c].nextErr = "ErrNoMoreEvents"

\* the events saved for an aggregate before the caller's call started, in commit order
SavedBefore(c, ident) ==
    SelectSeq(SubSeq(saved, 1, op[c].mark), LAMBDA e : IdentityOf(e) = ident)

\* the Version an aggregate was persisted at when the caller's call started
PersistedVersion(c, ident) ==
    LET mine == SavedBefore(c, ident)
    IN  IF mine = <<>> THEN 0
        ELSE CHOOSE v \in { mine[i].Version : i \in 1..Len(mine) } :
                 \A i \in 1..Len(mine) : mine[i].Version <= v

Versions(events) == [i \in 1..Len(events) |-> events[i].Version]

OneToN(versions) == \A i \in 1..Len(versions) : versions[i] = i

\* C1: two callers that loaded an aggregate at the same Version and both save a batch
\* starting at that Version + 1: one Save succeeds, the other fails with
\* ConcurrencyConflict, and the store holds one event of that Version.
C1_ExactlyOneSaveWins ==
    \A c \in Callers, d \in Callers :
        (/\ c # d /\ SaveDone(c) /\ SaveDone(d)
         /\ op[c].ident = op[d].ident
         /\ op[c].seen # NotLoaded /\ op[c].seen = op[d].seen
         /\ op[c].err \notin Faults /\ op[d].err \notin Faults)
        => /\ \/ op[c].err = NoError /\ op[d].err = "ErrConcurrency"
              \/ op[d].err = NoError /\ op[c].err = "ErrConcurrency"
           /\ Cardinality({ i \in 1..Len(saved) :
                              /\ IdentityOf(saved[i]) = op[c].ident
                              /\ saved[i].Version = op[c].seen + 1 }) = 1

\* C2: in the memory and SQL stores a Save whose first event's Version is not the
\* aggregate's persisted Version + 1 fails with ConcurrencyConflict (unless the
\* database failed first) and stores nothing.
C2_StaleSaveRejected ==
    \A c \in Callers :
        (/\ SaveDone(c) /\ backend \in {"memory", "sql"}
         /\ op[c].input[1].Version # PersistedVersion(c, op[c].ident) + 1)
        => /\ op[c].err \in {"ErrConcurrency"} \cup Faults
           /\ Persisted = op[c].before

\* the events a store holds for an aggregate, in storage order, by their Versions
StoredVersions(ident) ==
    CASE backend = "memory" ->
           Versions(SelectSeq(aggregateEvents[aggregateKey(ident.type, ident.id)],
                              LAMBDA e : IdentityOf(e) = ident))
      [] backend = "sql" ->
           [i \in 1..Len(SelectSeq(rows, LAMBDA r : r.id = ident.id /\ r.type = ident.type)) |->
              SelectSeq(rows, LAMBDA r : r.id = ident.id /\ r.type = ident.type)[i].version]
      [] OTHER ->
           [i \in 1..Len(streams[stream(ident.type, ident.id)]) |->
              streams[stream(ident.type, ident.id)][i].EventNumber + 1]

\* C3: the events stored for one aggregate identity have the Versions 1, 2, ..., n
\* in storage order.
C3_VersionsOneToN ==
    \A ident \in Identities : OneToN(StoredVersions(ident))

\* C4: the GlobalVersions given to committed events are different for any two
\* events, and larger for the event committed later.
C4_GlobalVersionsIncrease ==
    \A i \in 1..Len(saved), j \in 1..Len(saved) :
        i < j => saved[i].GlobalVersion < saved[j].GlobalVersion

\* what a store holds once a batch is added to what it held before
PersistedWith(before, events) ==
    CASE backend = "memory" ->
           /\ eventsInOrder = before[2] \o events
           /\ aggregateEvents =
                [before[1] EXCEPT ![aggregateKey(events[1].AggregateType, events[1].AggregateID)]
                    = @ \o events]
      [] backend = "sql" ->
           /\ Len(rows) = Len(before[3]) + Len(events)
           /\ SubSeq(rows, 1, Len(before[3])) = before[3]
           /\ \A i \in 1..Len(events) :
                rows[Len(before[3]) + i] = InsertedRow(events[i], events[i].GlobalVersion)
      [] OTHER ->
           LET streamID == stream(events[1].AggregateType, events[1].AggregateID)
           IN  /\ allLog = before[5] + Len(events)
               /\ \A k \in StreamNames \ {streamID} : streams[k] = before[4][k]
               /\ Len(streams[streamID]) = Len(before[4][streamID]) + Len(events)
               /\ SubSeq(streams[streamID], 1, Len(before[4][streamID])) = before[4][streamID]
               /\ \A i \in 1..Len(events) :
                    LET r == streams[streamID][Len(before[4][streamID]) + i]
                    IN  r.EventType = Reason(events[i]) /\ r.Data = Marshal(events[i].Data)

\* C5: a Save persists every event of its batch, each with a GlobalVersion, or, when
\* it returns an error, none: the store is then as it was before the call.  Nothing
\* is persisted while the call is still running.
C5_SaveAtomic ==
    \A c \in Callers :
        /\ (op[c].kind = "Save" /\ op[c].pc # "done") => Persisted = op[c].before
        /\ (SaveDone(c) /\ op[c].err # NoError) => Persisted = op[c].before
        /\ (SaveDone(c) /\ op[c].err = NoError) =>
              /\ PersistedWith(op[c].before, op[c].events)
              /\ \A i \in 1..Len(op[c].events) : op[c].events[i].GlobalVersion # 0

\* a SQL Save that failed at its commit, after its inserts, on a store that holds rows
C5_Witness ==
    \E c \in Callers :
        /\ backend = "sql" /\ SaveDone(c) /\ op[c].err = "ErrDatabase"
        /\ op[c].events[Len(op[c].events)].GlobalVersion # 0
        /\ Len(rows) > 0

\* C6: when a Save returns an error, no event of the caller's batch has had its
\* GlobalVersion changed.
C6_NoGlobalVersionOnError ==
    \A c \in Callers :
        (SaveDone(c) /\ op[c].err # NoError) => op[c].events = op[c].input

\* C7: in the memory store, Get from Version 0 and draining the iterator returns
\* every event saved for the aggregate exactly once, with the Data it was saved
\* with, in ascending Version order.
C7_RoundTrip ==
    \A c \in Callers :
        (GetDone(c) /\ backend = "memory" /\ op[c].after = 0) =>
            LET mine == SavedBefore(c, op[c].ident)
            IN  /\ mine # <<>> => op[c].err = NoError /\ op[c].open
                /\ Drained(c) =>
                     /\ \A k \in 1..Len(mine) :
                          Cardinality({ j \in 1..Len(op[c].out) : op[c].out[j] = mine[k] }) = 1
                     /\ \A j \in 1..Len(op[c].out), k \in 1..Len(op[c].out) :
                          j < k => op[c].out[j].Version < op[c].out[k].Version

\* a drained iterator of the memory store that returned two events of the aggregate
\* asked for, with different Data
C7_Witness ==
    \E c \in Callers :
        /\ backend = "memory" /\ Drained(c) /\ op[c].after = 0
        /\ Len(SavedBefore(c, op[c].ident)) = 2
        /\ Len(op[c].out) = 2
        /\ op[c].out[1].Data # op[c].out[2].Data

\* C8: every event an iterator returns has the AggregateID, Version, GlobalVersion,
\* AggregateType, Data and Metadata of an event as a successful Save returned it.
C8_FieldsPreserved ==
    \A c \in Callers :
        GetDone(c) =>
            \A k \in 1..Len(op[c].out) :
                \E j \in 1..Len(saved) : op[c].out[k] = saved[j]

\* an event by the fields that identify it and its payload
Key(e) == <<e.AggregateType, e.AggregateID, e.Version, e.Data>>

\* C9: Get after Version N yields the events stored for that aggregate with a
\* Version above N (those whose type and reason are registered, in the stores that
\* decode), in ascending Version order, and no event with a Version up to N.
C9_OnlyEventsAfterVersion ==
    \A c \in Callers :
        GetDone(c) =>
            LET mine == SavedBefore(c, op[c].ident)
                expected == { Key(mine[i]) : i \in { j \in 1..Len(mine) :
                                /\ mine[j].Version > op[c].after
                                /\ (backend = "memory"
                                    \/ TypeFound(mine[j].AggregateType, Reason(mine[j]))) } }
                got == { Key(op[c].out[k]) : k \in 1..Len(op[c].out) }
            IN  /\ \A k \in 1..Len(op[c].out) : op[c].out[k].Version > op[c].after
                /\ \A j \in 1..Len(op[c].out), k \in 1..Len(op[c].out) :
                     j < k => op[c].out[j].Version < op[c].out[k].Version
                /\ got \subseteq expected
                /\ Drained(c) => got = expected

\* C10: Get fails with NoEvents, and returns no iterator, whenever no stored event
\* of the aggregate has a Version above afterVersion.
C10_NoEventsWhenNothingMatches ==
    \A c \in Callers :
        (/\ GetDone(c) /\ op[c].err \notin Faults
         /\ \A i \in 1..Len(SavedBefore(c, op[c].ident)) :
               SavedBefore(c, op[c].ident)[i].Version <= op[c].after)
        => op[c].err = "ErrNoEvents" /\ ~op[c].open

\* the stream an open iterator reads: its events as the store decodes them, each
\* with whether its aggregate type and reason are registered
StreamOf(c) ==
    LET items == op[c].iter
    IN  CASE backend = "memory" ->
               [i \in 1..Len(items) |-> [registered |-> TRUE, event |-> items[i]]]
          [] backend = "sql" ->
               [i \in 1..Len(items) |->
                  [registered |-> TypeFound(items[i].type, items[i].reason),
                   event |-> SQLEvent(items[i])]]
          [] backend = "esdb" ->
               [i \in 1..Len(items) |->
                  [registered |-> TypeFound(op[c].ident.type, items[i].EventType),
                   event |-> ESDBEvent(items[i])]]
          [] OTHER ->
               LET from == op[c].firstEventIndex
                   n == IF Len(items) >= from THEN Len(items) - from + 1 ELSE 0
               IN  [i \in 1..n |->
                      [registered |-> TypeFound(Unmarshal(items[from + i - 1]).AggregateType,
                                                Unmarshal(items[from + i - 1]).Reason),
                       event |-> BoltEvent(items[from + i - 1])]]

\* the events of that stream an iterator is to deliver, in stored order
Deliverable(c) ==
    LET registered == SelectSeq(StreamOf(c), LAMBDA x : x.registered)
    IN  [i \in 1..Len(registered) |-> registered[i].event]

IsPrefix(s, t) == Len(s) <= Len(t) /\ SubSeq(t, 1, Len(s)) = s

\* C12: an iterator delivers the events of its stream in ascending Version order,
\* none twice; its Next fails with NoMoreEvents only once every event has been
\* delivered, and goes on failing with it, delivering nothing more, when called
\* again; Close can be called after exhaustion or after an error, and neither
\* iterating nor closing changes what the store holds.
C12_IteratorContract ==
    \A c \in Callers :
        (GetDone(c) /\ op[c].open) =>
            /\ \A j \in 1..Len(op[c].out), k \in 1..Len(op[c].out) :
                 j < k => op[c].out[j].Version < op[c].out[k].Version
            /\ (op[c].nextErr = "ErrNoMoreEvents" /\ ~op[c].closed) =>
                 \A k \in 1..Len(Deliverable(c)) :
                    Cardinality({ j \in 1..Len(op[c].out) :
                                    op[c].out[j] = Deliverable(c)[k] }) = 1
            /\ op[c].ended >= 1 => op[c].nextErr = "ErrNoMoreEvents"
            /\ op[c].ended > 1 => (~op[c].closed => op[c].out = Deliverable(c))
            /\ Persisted = op[c].before

\* an iterator closed after it delivered two events, ended, and was asked again
C12_Witness ==
    \E c \in Callers :
        /\ GetDone(c) /\ op[c].closed /\ op[c].closedAt = "ErrNoMoreEvents"
        /\ op[c].ended > 1 /\ Len(op[c].out) = 2

\* C12 as stated: Next fails with NoMoreEvents exactly once, so that an ended
\* iterator that is asked again does not return the sentinel a second time.
C12_SentinelExactlyOnce ==
    \A c \in Callers :
        (GetDone(c) /\ op[c].open /\ backend \in {"memory", "esdb", "bbolt"}) =>
            /\ \A j \in 1..Len(op[c].out), k \in 1..Len(op[c].out) :
                 j < k => op[c].out[j].Version < op[c].out[k].Version
            /\ op[c].ended <= 1

SnapshotDone(c) == call[c].kind = "SaveSnapshot" /\ call[c].pc = "done"

\* C14: a SaveSnapshot of an aggregate that has unsaved events fails with
\* UnsavedEvents and leaves the snapshot store as it was, for an aggregate
\* marshalled by the serializer and for one with its own Marshal.
C14_UnsavedEventsRefused ==
    \A c \in Callers :
        (SnapshotDone(c) /\ UnsavedEvents(call[c].before))
        => /\ call[c].err = "ErrUnsavedEvents"
           /\ snapshots = call[c].snapshotsBefore

\* an aggregate with its own Marshal, snapshotted before, is refused with a
\* change that is not saved
C14_Witness ==
    \E c \in Callers :
        /\ SnapshotDone(c) /\ UnsavedEvents(call[c].before) /\ call[c].hook
        /\ call[c].err = "ErrUnsavedEvents"
        /\ snapshots[call[c].ident] # NoSnapshot
        /\ snapshots[call[c].ident].Version < call[c].before.Version

\* a GetWithContext that has loaded a snapshot and has not replayed an event yet
SnapshotLoaded(c) ==
    call[c].kind = "Get" /\ call[c].pc = "read" /\ call[c].snap # NoSnapshot

\* C16: the snapshot a SaveSnapshot stores carries the ID, Version and GlobalVersion
\* the aggregate had at the call, and a fresh aggregate a snapshot is loaded into
\* has the snapshot's ID, Version and GlobalVersion.
C16_SnapshotRoundTrip ==
    \A c \in Callers :
        /\ (SnapshotDone(c) /\ call[c].err = NoError)
           => LET snap == snapshots[call[c].ident]
              IN  /\ snap.ID = call[c].before.id
                  /\ snap.Version = call[c].before.Version
                  /\ snap.GlobalVersion = call[c].before.GlobalVersion
        /\ SnapshotLoaded(c)
           => /\ call[c].before.id = EmptyString /\ call[c].before.Version = 0
              /\ aggregate[c].id = call[c].snap.ID
              /\ aggregate[c].Version = call[c].snap.Version
              /\ aggregate[c].GlobalVersion = call[c].snap.GlobalVersion

\* a snapshot taken at Version 2 with a GlobalVersion is loaded into a fresh aggregate
C16_Witness ==
    \E c \in Callers :
        /\ SnapshotLoaded(c)
        /\ call[c].snap.Version = 2 /\ call[c].snap.GlobalVersion > 0
        /\ call[c].snap.ID = call[c].ident.id
        /\ aggregate[c].Version = 2

\* the highest Version among the events persisted for an aggregate, 0 without any
HighestPersisted(ident) ==
    LET mine == SelectSeq(saved, LAMBDA e : IdentityOf(e) = ident)
    IN  IF mine = <<>> THEN 0
        ELSE CHOOSE v \in { mine[i].Version : i \in 1..Len(mine) } :
                 \A i \in 1..Len(mine) : mine[i].Version <= v

\* C15: every snapshot in the snapshot store has a Version that is at most the
\* highest Version the event store holds for the snapshot's aggregate.
C15_SnapshotNotAheadOfLog ==
    \A ident \in Identities :
        snapshots[ident] # NoSnapshot
        => snapshots[ident].Version <= HighestPersisted(ident)

\* a Get, or a GetWithContext whose context is never done, that has returned
GetReturned(c) == call[c].kind = "Get" /\ call[c].pc = "done" /\ call[c].cancel = "never"

\* the domain fields a snapshot holds
StateIn(snap) ==
    IF snap.Type \in SnapshotAggregateTypes THEN UnmarshalHook(snap.State)
    ELSE Unmarshal(snap.State)

\* C11: a Get fails with NoEvents only if the aggregate has neither a snapshot nor
\* a persisted event; with a snapshot at Version N and no persisted event above N
\* it succeeds (unless the store is out of order) and the aggregate has the
\* snapshot's state, Version and GlobalVersion.
C11_GetWithSnapshot ==
    \A c \in Callers :
        GetReturned(c)
        => /\ call[c].err = "ErrNoEvents"
              => /\ snapshots[call[c].ident] = NoSnapshot
                 /\ HighestPersisted(call[c].ident) = 0
           /\ (/\ snapshots[call[c].ident] # NoSnapshot
               /\ HighestPersisted(call[c].ident) <= snapshots[call[c].ident].Version
               /\ call[c].err \notin Faults)
              => LET snap == snapshots[call[c].ident]
                 IN  /\ call[c].err = NoError
                     /\ StateOf(aggregate[c]) = StateIn(snap)
                     /\ aggregate[c].Version = snap.Version
                     /\ aggregate[c].GlobalVersion = snap.GlobalVersion

\* an aggregate rebuilt from the events another one tracked
Rebuilt(person) ==
    BuildFromHistory([ZeroAggregate EXCEPT !.type = person.type], person.history)

\* C19: a fresh aggregate rebuilt with BuildFromHistory from the events an
\* aggregate has tracked one by one has the same domain fields and the same
\* Version as that aggregate.
C19_ReplayEqualsTracking ==
    \A c \in Callers :
        aggregate[c].origin = "created"
        => /\ StateOf(Rebuilt(aggregate[c])) = StateOf(aggregate[c])
           /\ Rebuilt(aggregate[c]).Version = aggregate[c].Version

\* a Person that was born and has aged twice
C19_Witness ==
    \E c \in Callers :
        /\ aggregate[c].origin = "created"
        /\ Len(aggregate[c].history) = 3 /\ aggregate[c].Age = 2
        /\ aggregate[c].Name = BornName
        /\ Rebuilt(aggregate[c]).Version = 3

\* a GetWithContext whose context was done before the store read or became done
\* during it, and that has returned
GetCancelled(c) ==
    call[c].kind = "Get" /\ call[c].pc = "done" /\ call[c].cancel \in {"before", "during"}

\* C20: with every event store, a GetWithContext whose context is done before the
\* store read or becomes done during it returns the cancellation error and leaves
\* the aggregate as the caller passed it.
C20_CancellationLeavesAggregate ==
    \A c \in Callers :
        GetCancelled(c)
        => /\ call[c].err = ctxErr
           /\ aggregate[c] = call[c].before

Count(events, e) == Cardinality({ i \in 1..Len(events) : events[i] = e })

IsSuffix(s, t) == Len(s) <= Len(t) /\ SubSeq(t, Len(t) - Len(s) + 1, Len(t)) = s

\* the events of a batch a subscription is for, in the batch's order
Matching(subscription, events) ==
    SelectSeq(events, LAMBDA e : Matches(subscription.predicate, e))

\* a Save that has committed a batch and has just returned
SaveReturned(c) ==
    call[c].kind = "Save" /\ call[c].pc = "done" /\ call[c].err = NoError
    /\ call[c].batch # <<>>

\* C17: when a Save that committed a batch has returned, every handler that was
\* registered before the batch was published and was not closed before it has been
\* handed each event of the batch it is for once, in ascending Version order, as
\* the last events it was handed; and no handler is ever handed an event that was
\* published after its subscription was closed.
C17_SubscriptionProperty ==
    /\ \A c \in Callers, h \in Handlers :
         (/\ SaveReturned(c)
          /\ subscriptions[h].status # "none"
          /\ ~Holds(subscriptions[h].earlier, call[c].batch[1])
          /\ ~Holds(subscriptions[h].later, call[c].batch[1]))
         => LET mine == Matching(subscriptions[h], call[c].batch)
            IN  /\ IsSuffix(mine, subscriptions[h].seen)
                /\ \A i \in 1..Len(mine) : Count(subscriptions[h].seen, mine[i]) = 1
                /\ \A i \in 1..Len(mine), j \in 1..Len(mine) :
                     i < j => mine[i].Version < mine[j].Version
    /\ \A h \in Handlers :
         \A i \in 1..Len(subscriptions[h].later) :
            ~Holds(subscriptions[h].seen, subscriptions[h].later[i])

\* a handler was handed the two events of a batch, its subscription was closed and
\* a later Save has returned
C17_Witness ==
    \E c \in Callers, h \in Handlers :
        /\ SaveReturned(c)
        /\ subscriptions[h].status = "closed"
        /\ Len(subscriptions[h].seen) = 2
        /\ subscriptions[h].seen[1].Version < subscriptions[h].seen[2].Version
        /\ subscriptions[h].later = call[c].batch

\* C18: a handler is never handed an event of a batch whose Save had returned
\* before the handler was registered.
C18_NoBacklog ==
    \A h \in Handlers :
        \A i \in 1..Len(subscriptions[h].earlier) :
            ~Holds(subscriptions[h].seen, subscriptions[h].earlier[i])

\* a handler for every event that was registered after a Save had returned and
\* has been handed the events of a later Save
C18_Witness ==
    \E h \in Handlers :
        /\ subscriptions[h].status = "active"
        /\ subscriptions[h].predicate.kind = "All"
        /\ subscriptions[h].earlier # <<>>
        /\ subscriptions[h].seen # <<>>

\* a Save of a batch without events that has returned
EmptySaveDone(c) == op[c].kind = "Save" /\ op[c].pc = "done" /\ op[c].input = <<>>

\* C21: in every store a Save of a batch without events returns no error and
\* leaves the stored events of every aggregate, the global order and the next
\* GlobalVersion as they were.
C21_EmptySaveIsNoOp ==
    \A c \in Callers :
        EmptySaveDone(c)
        => /\ op[c].err = NoError
           /\ Persisted = op[c].before
           /\ saved = SubSeq(saved, 1, op[c].mark)

\* an empty batch was saved to a store that holds events
C21_Witness ==
    \E c \in Callers :
        EmptySaveDone(c) /\ op[c].err = NoError /\ Len(saved) >= 2

\* C22: in the in-memory store the k-th event of the global order has GlobalVersion
\* k; every event of a per-aggregate bucket is the event of the global order at its
\* GlobalVersion; a Save that succeeded has written these GlobalVersions to the
\* caller's events; a Save that failed has used up none.
C22_MemoryGlobalVersionsSequential ==
    backend = "memory"
    => /\ \A k \in 1..Len(eventsInOrder) : eventsInOrder[k].GlobalVersion = k
       /\ \A b \in BucketNames :
            \A i \in 1..Len(aggregateEvents[b]) :
               LET e == aggregateEvents[b][i]
               IN  /\ e.GlobalVersion \in 1..Len(eventsInOrder)
                   /\ eventsInOrder[e.GlobalVersion] = e
       /\ \A c \in Callers :
            SaveDone(c)
            => IF op[c].err = NoError
               THEN /\ Len(eventsInOrder) = Len(op[c].before[2]) + Len(op[c].input)
                    /\ \A i \in 1..Len(op[c].input) :
                         /\ op[c].events[i].GlobalVersion = Len(op[c].before[2]) + i
                         /\ eventsInOrder[Len(op[c].before[2]) + i] = op[c].events[i]
               ELSE /\ eventsInOrder = op[c].before[2]
                    /\ op[c].events = op[c].input

\* two events in the global order, and a Save that failed after them
C22_Witness ==
    /\ backend = "memory"
    /\ Len(eventsInOrder) = 2
    /\ eventsInOrder[2].GlobalVersion = 2
    /\ \E c \in Callers : SaveDone(c) /\ op[c].err = "ErrConcurrency"

\* the events a store holds, in the global order, as it reads them back
StoredInOrder ==
    IF backend = "memory" THEN eventsInOrder
    ELSE [i \in 1..Len(rows) |-> SQLEvent(rows[i])]

GlobalDone(c) == op[c].kind = "GlobalEvents" /\ op[c].pc = "done" /\ op[c].err = NoError

\* C23: GlobalEvents(start, count) returns the first min(count, m) of the m stored
\* events whose GlobalVersion is at least start, in ascending GlobalVersion order,
\* for every count from 0 on.
C23_GlobalEventsAtMostCount ==
    \A c \in Callers :
        GlobalDone(c)
        => LET among == SelectSeq(StoredInOrder, LAMBDA e : e.GlobalVersion >= op[c].start)
               n == IF op[c].count < Len(among) THEN op[c].count ELSE Len(among)
           IN  /\ Len(op[c].out) <= op[c].count
               /\ op[c].out = SubSeq(among, 1, n)
               /\ \A i \in 1..Len(op[c].out), j \in 1..Len(op[c].out) :
                    i < j => op[c].out[i].GlobalVersion < op[c].out[j].GlobalVersion

\* the recorded events of the stream a Save appends to, when the Save started
StreamBefore(c) == op[c].before[4][stream(op[c].ident.type, op[c].ident.id)]

\* C24: an ESDB Save of a batch whose first event has Version V >= 1 appends with
\* the expectation that the stream holds V - 1 events: it succeeds only then, and
\* with any other number of events in the stream the append is refused and nothing
\* is recorded.
C24_ConditionalAppend ==
    /\ \A k \in StreamNames, v \in 1..MaxVersion :
         RevisionMatches(ExpectedRevision(v), streams[k]) <=> Len(streams[k]) = v - 1
    /\ \A c \in Callers :
         (SaveDone(c) /\ backend = "esdb" /\ op[c].input[1].Version >= 1)
         => /\ op[c].err = NoError => Len(StreamBefore(c)) = op[c].input[1].Version - 1
            /\ Len(StreamBefore(c)) # op[c].input[1].Version - 1
               => /\ op[c].err # NoError
                  /\ Persisted = op[c].before

\* a batch that starts at Version 2 was appended to a stream of one event
C24_Witness ==
    \E c \in Callers :
        /\ SaveDone(c) /\ backend = "esdb" /\ op[c].err = NoError
        /\ op[c].input[1].Version = 2
        /\ Len(StreamBefore(c)) = 1

\* what a store holds for one aggregate: the events its Get reads and its Save
\* takes the current Version from
HeldFor(ident, persisted) ==
    CASE backend = "memory" -> persisted[1][aggregateKey(ident.type, ident.id)]
      [] backend = "sql" ->
           SelectSeq(persisted[3], LAMBDA r : r.id = ident.id /\ r.type = ident.type)
      [] OTHER -> persisted[4][stream(ident.type, ident.id)]

\* C25: a Save for one aggregate leaves what the store holds for every other
\* aggregate (what its Get returns, what its next Save is validated against) as it
\* was, and every event a Get delivers has the AggregateID and AggregateType that
\* were asked for, also when the names contain the store's separator.
C25_StreamsIsolated ==
    \A c \in Callers :
        /\ SaveDone(c)
           => \A other \in Identities \ {op[c].ident} :
                 HeldFor(other, Persisted) = HeldFor(other, op[c].before)
        /\ GetDone(c)
           => \A i \in 1..Len(op[c].out) : IdentityOf(op[c].out[i]) = op[c].ident

\* the events a Get of the in-memory store has returned in its iterator, while
\* the iterator is not closed
View(c) == IF op[c].open THEN op[c].iter ELSE <<>>

MemoryGetDone(c) == backend = "memory" /\ GetDone(c) /\ ~op[c].closed

\* a Save of the in-memory store that has committed a batch to the bucket a Get read
CommittedTo(s, g) ==
    /\ SaveDone(s) /\ op[s].err = NoError
    /\ aggregateKey(op[s].ident.type, op[s].ident.id)
         = aggregateKey(op[g].ident.type, op[g].ident.id)

\* the bucket a Get read, as it was when the Get ran
BucketAtGet(g) == op[g].before[1][aggregateKey(op[g].ident.type, op[g].ident.id)]

MatchingAtGet(g) == SelectSeq(BucketAtGet(g), LAMBDA e : e.Version > op[g].after)

\* a caller holding the iterator of a Get of the in-memory store
MemoryIteratorHeld(g) == backend = "memory" /\ GetDone(g) /\ op[g].open

\* a Save that committed to the bucket of a Get after the Get returned
CommittedSince(s, g) ==
    /\ CommittedTo(s, g)
    /\ Len(op[s].before[1][aggregateKey(op[g].ident.type, op[g].ident.id)])
         >= Len(BucketAtGet(g))

\* C27: the events the Next calls of an in-memory iterator deliver are, in order,
\* the matching events stored when Get returned, whatever Save commits while the
\* caller drains it: always a prefix of them, and all of them once Next has
\* returned NoMoreEvents; after Close a Next returns NoMoreEvents and delivers no
\* event.
C27_FixedView ==
    /\ [](\A g \in Callers :
            MemoryIteratorHeld(g)
            => /\ Len(op[g].out) <= Len(MatchingAtGet(g))
               /\ op[g].out = SubSeq(MatchingAtGet(g), 1, Len(op[g].out))
               /\ (~op[g].closed /\ op[g].nextErr = "ErrNoMoreEvents")
                  => op[g].out = MatchingAtGet(g))
    /\ [][\A g \in Callers :
            (MemoryIteratorHeld(g) /\ op[g].closed /\ op'[g].kind = "Get" /\ op'[g] # op[g])
            => /\ op'[g].out = op[g].out
               /\ op'[g].nextErr = "ErrNoMoreEvents"]_vars

\* a caller that took one of the two events of its iterator, closed it after
\* another caller had committed a batch to the same bucket, and called Next again
C27_Witness ==
    \E g \in Callers, s \in Callers :
        /\ MemoryIteratorHeld(g) /\ op[g].closed
        /\ op[g].closedAt = NoError /\ op[g].nextErr = "ErrNoMoreEvents"
        /\ Len(op[g].out) = 1 /\ Len(MatchingAtGet(g)) = 2
        /\ CommittedSince(s, g)


====
